---- MODULE Spec2Model ----
(***************************************************************************)
(* Model of neurokit2/microstates/microstates_quality.py: the three pure   *)
(* functions _correlate_vectors, microstates_gev and                       *)
(* microstates_crossvalidation, over numpy arrays.                         *)
(*                                                                         *)
(* Arithmetic is exact.  A finite real is a finite sum of terms            *)
(* (n/d)*sqrt(r) kept in canonical form, so that equality of two results   *)
(* is equality of the values the formulas denote; the rounding of IEEE     *)
(* doubles is not part of the model.  The non-finite values of IEEE        *)
(* arithmetic (nan, +inf, -inf) and the exceptions numpy raises are part   *)
(* of it.                                                                  *)
(***************************************************************************)
EXTENDS Integers, Sequences, FiniteSets, TLC

(***************************************************************************)
(* Integers and rationals.                                                 *)
(***************************************************************************)
Abs(i) == IF i < 0 THEN -i ELSE i

Max(i, j) == IF i < j THEN j ELSE i

RECURSIVE GCD(_, _)
GCD(a, b) == IF b = 0 THEN a ELSE GCD(b, a % b)

\* the largest s with s*s dividing n >= 1, searched from k upwards
RECURSIVE SqPartFrom(_, _, _)
SqPartFrom(n, k, best) ==
    IF k * k > n THEN best
    ELSE SqPartFrom(n, k + 1, IF n % (k * k) = 0 THEN k ELSE best)

SqPart(n) == SqPartFrom(n, 2, 1)

(***************************************************************************)
(* A term <<r, n, d>> is (n/d)*sqrt(r): r > 0 squarefree, d > 0, n # 0,    *)
(* gcd(n, d) = 1.  Term(p, q, n, d) brings (n/d)*sqrt(p/q), p >= 0, q > 0, *)
(* d # 0, to that form: a set holding the term, or the empty set when the  *)
(* value is 0.  sqrt(p/q) = (sp/(sq*q2))*sqrt(p2*q2) where p/q in lowest   *)
(* terms is (sp^2 p2)/(sq^2 q2) with p2, q2 squarefree.                    *)
(***************************************************************************)
\* (n/d)*sqrt(r), h the gcd of n and d
Lowest(r, n, d, h) ==
    IF d < 0 THEN {<<r, (-n) \div h, (-d) \div h>>} ELSE {<<r, n \div h, d \div h>>}

Coefficient(r, n, d) == Lowest(r, n, d, GCD(Abs(n), Abs(d)))

\* (n/d)*(sp/sq)*sqrt(p2/q2), p2 and q2 squarefree
Squarefree(p2, q2, sp, sq, n, d) == Coefficient(p2 * q2, n * sp, d * sq * q2)

\* (n/d)*sqrt(p1/q1) with p1/q1 in lowest terms, sp and sq their square parts
SquaresOut(p1, q1, sp, sq, n, d) ==
    Squarefree(p1 \div (sp * sp), q1 \div (sq * sq), sp, sq, n, d)

Reduced(p1, q1, n, d) == SquaresOut(p1, q1, SqPart(p1), SqPart(q1), n, d)

RadicandLowest(p, q, g, n, d) == Reduced(p \div g, q \div g, n, d)

Term(p, q, n, d) ==
    IF p = 0 \/ n = 0 THEN {} ELSE RadicandLowest(p, q, GCD(p, q), n, d)

Rad(t) == t[1]

\* a finite real: a set of terms with pairwise different radicands
Rads(x) == {Rad(t) : t \in x}

CoefN(x, r) == IF r \in Rads(x) THEN (CHOOSE t \in x : Rad(t) = r)[2] ELSE 0

CoefD(x, r) == IF r \in Rads(x) THEN (CHOOSE t \in x : Rad(t) = r)[3] ELSE 1

FinAdd(x, y) ==
    IF x = {} THEN y
    ELSE IF y = {} THEN x
    ELSE UNION {Term(r, 1,
                     CoefN(x, r) * CoefD(y, r) + CoefN(y, r) * CoefD(x, r),
                     CoefD(x, r) * CoefD(y, r)) : r \in Rads(x) \cup Rads(y)}

FinNeg(x) == {<<t[1], -t[2], t[3]>> : t \in x}

\* products of one term with different terms have different radicands
FinMulTerm(t, y) == UNION {Term(t[1] * u[1], 1, t[2] * u[2], t[3] * u[3]) : u \in y}

RECURSIVE FinMul(_, _)
FinMul(x, y) ==
    IF x = {} THEN {}
    ELSE LET t == CHOOSE t \in x : TRUE
         IN  FinAdd(FinMulTerm(t, y), FinMul(x \ {t}, y))

\* 1/t for a term t
TermInv(t) == Term(1, t[1], t[3], t[2])

IsRat(x) == \A t \in x : Rad(t) = 1

TermSign(t) == IF t[2] > 0 THEN 1 ELSE -1

\* the square of a term, a rational
TermSq(t) == Term(1, 1, t[2] * t[2] * t[1], t[3] * t[3])

RatSign(x) == IF x = {} THEN 0 ELSE TermSign(CHOOSE t \in x : TRUE)

\* the sign of t - u for terms t, u > 0: that of t^2 - u^2
SignOfDifference(t, u) == RatSign(FinAdd(TermSq(t), FinNeg(TermSq(u))))

\* whether |c| > |a| + |b|, given D = c^2 - a^2 - b^2 and P = 4 a^2 b^2:
\* iff D > 0 and D^2 > P
Exceeds(D, P) == RatSign(D) > 0 /\ RatSign(FinAdd(FinMul(D, D), FinNeg(P))) > 0

\* the sign of c + a + b where a, b have the sign opposite to that of c
SignOfThree(c, a, b) ==
    IF Exceeds(FinAdd(TermSq(c), FinNeg(FinAdd(TermSq(a), TermSq(b)))),
               FinMul(Term(1, 1, 4, 1), FinMul(TermSq(a), TermSq(b))))
    THEN TermSign(c) ELSE -TermSign(c)

\* the one term of three whose sign the two others do not have
OddOne(x) == CHOOSE c \in x : \A t \in x \ {c} : TermSign(t) # TermSign(c)

First(x) == CHOOSE t \in x : TRUE

\* the sign of a sum of at most three terms
FinSign(x) ==
    CASE x = {} -> 0
      [] \A t \in x : TermSign(t) = 1 -> 1
      [] \A t \in x : TermSign(t) = -1 -> -1
      [] Cardinality(x) = 2 ->
             SignOfDifference(CHOOSE t \in x : TermSign(t) = 1,
                              CHOOSE u \in x : TermSign(u) = -1)
      [] Cardinality(x) = 3 ->
             SignOfThree(OddOne(x), First(x \ {OddOne(x)}),
                         First(x \ {OddOne(x), First(x \ {OddOne(x)})}))

(***************************************************************************)
(* IEEE values: a finite real, nan, +inf or -inf.  The operations follow   *)
(* numpy's float arithmetic, which warns and does not raise: x/0 is nan    *)
(* for x = 0 and +-inf otherwise, and nan propagates.  A finite divisor is  *)
(* a single term: every divisor of the program is a norm, a standard       *)
(* deviation times gfp, or a count.                                        *)
(***************************************************************************)
Fin(x) == [k |-> "fin", v |-> x]

NaN == [k |-> "nan", v |-> {}]

PInf == [k |-> "inf", v |-> {}]

NInf == [k |-> "ninf", v |-> {}]

Rat(n, d) == Fin(Term(1, 1, n, d))

Num(i) == Rat(i, 1)

Zero == Num(0)

One == Num(1)

IsFinite(a) == a.k = "fin"

NSign(a) ==
    CASE a.k = "fin" -> FinSign(a.v)
      [] a.k = "inf" -> 1
      [] a.k = "ninf" -> -1

Signed(s) == IF s = 0 THEN NaN ELSE IF s > 0 THEN PInf ELSE NInf

NNeg(a) ==
    CASE a.k = "fin" -> Fin(FinNeg(a.v))
      [] a.k = "nan" -> NaN
      [] a.k = "inf" -> NInf
      [] a.k = "ninf" -> PInf

NAdd(a, b) ==
    CASE a.k = "nan" \/ b.k = "nan" -> NaN
      [] a.k = "fin" /\ b.k = "fin" -> Fin(FinAdd(a.v, b.v))
      [] a.k = "fin" /\ b.k # "fin" -> b
      [] a.k # "fin" /\ b.k = "fin" -> a
      [] OTHER -> IF a.k = b.k THEN a ELSE NaN

NSub(a, b) == NAdd(a, NNeg(b))

NMul(a, b) ==
    CASE a.k = "nan" \/ b.k = "nan" -> NaN
      [] a.k = "fin" /\ b.k = "fin" -> Fin(FinMul(a.v, b.v))
      [] OTHER -> Signed(NSign(a) * NSign(b))

NDiv(a, b) ==
    CASE a.k = "nan" \/ b.k = "nan" -> NaN
      [] b.k # "fin" -> IF a.k = "fin" THEN Zero ELSE NaN
      [] b.v = {} -> Signed(NSign(a))
      [] a.k # "fin" -> Signed(NSign(a) * NSign(b))
      [] Cardinality(b.v) = 1 -> Fin(FinMul(a.v, TermInv(CHOOSE t \in b.v : TRUE)))

NSq(a) == NMul(a, a)

\* the square root of a rational >= 0, of nan or of +inf
NSqrt(a) ==
    CASE a.k = "nan" -> NaN
      [] a.k = "inf" -> PInf
      [] a.k = "fin" /\ a.v = {} -> Zero
      [] a.k = "fin" /\ IsRat(a.v) /\ FinSign(a.v) > 0 ->
             LET t == CHOOSE t \in a.v : TRUE IN Fin(Term(t[2], t[3], 1, 1))

\* a < b as IEEE compares: false when either side is nan
NLt(a, b) ==
    CASE a.k = "nan" \/ b.k = "nan" -> FALSE
      [] a.k = "fin" /\ b.k = "fin" -> FinSign(FinAdd(a.v, FinNeg(b.v))) < 0
      [] a.k = b.k -> FALSE
      [] OTHER -> a.k = "ninf" \/ b.k = "inf"

(***************************************************************************)
(* numpy arrays.  A 2-D array is a sequence of rows, a 1-D array a         *)
(* sequence of values; every dimension is at least 1.                      *)
(***************************************************************************)
\* a function on 1..n as the sequence it is
Tup(f) == f \o <<>>

Shape(X) == <<Len(X), Len(X[1])>>

\* a 1-D array as numpy broadcasts it against a 2-D one: one row
Row(v) == <<v>>

Transpose(X) == Tup([j \in 1..Len(X[1]) |-> Tup([i \in 1..Len(X) |-> X[i][j]])])

Compat(d1, d2) == d1 = d2 \/ d1 = 1 \/ d2 = 1

BDim(d1, d2) == IF d1 = 1 THEN d2 ELSE d1

\* whether numpy can broadcast shapes s1 and s2 together
Broadcastable(s1, s2) == Compat(s1[1], s2[1]) /\ Compat(s1[2], s2[2])

BShape(s1, s2) == <<BDim(s1[1], s2[1]), BDim(s1[2], s2[2])>>

\* X op Y elementwise under broadcasting
BOp(Op(_, _), X, Y) ==
    LET sx == Shape(X)
        sy == Shape(Y)
    IN  Tup([i \in 1..BDim(sx[1], sy[1]) |->
           Tup([j \in 1..BDim(sx[2], sy[2]) |->
              Op(X[IF sx[1] = 1 THEN 1 ELSE i][IF sx[2] = 1 THEN 1 ELSE j],
                 Y[IF sy[1] = 1 THEN 1 ELSE i][IF sy[2] = 1 THEN 1 ELSE j])])])

RECURSIVE SumSeq(_)
SumSeq(v) == IF v = <<>> THEN Zero ELSE NAdd(v[1], SumSeq(Tail(v)))

\* the vectors of X lying along axis: its columns (axis 0) or rows (axis 1)
Along(X, axis) == IF axis = 0 THEN Transpose(X) ELSE X

\* np.sum(X, axis=axis)
SumAxis(X, axis) ==
    LET vs == Along(X, axis) IN Tup([i \in DOMAIN vs |-> SumSeq(vs[i])])

\* np.sum(X) of a 2-D array
SumAll(X) == SumSeq(SumAxis(X, 1))

\* np.mean(X, axis=axis)
MeanAxis(X, axis) ==
    LET vs == Along(X, axis)
    IN  Tup([i \in DOMAIN vs |-> NDiv(SumSeq(vs[i]), Num(Len(vs[i])))])

SqSeq(v) == Tup([i \in DOMAIN v |-> NSq(v[i])])

\* np.linalg.norm(X, axis=axis)
NormAxis(X, axis) ==
    LET vs == Along(X, axis)
    IN  Tup([i \in DOMAIN vs |-> NSqrt(SumSeq(SqSeq(vs[i])))])

(***************************************************************************)
(* What a call gives: a value, or the exception numpy raised.              *)
(***************************************************************************)
Returns(x) == [exc |-> "none", val |-> x]

Raises(e) == [exc |-> e, val |-> <<>>]

(***************************************************************************)
(* _correlate_vectors(A, B, axis), lines 100-104.  A - mean and An * Bn    *)
(* broadcast; An /= norm is in place, so the broadcast shape must be the   *)
(* shape of An.                                                            *)
(***************************************************************************)
\* a slip: the mean is not subtracted
Uncentered(A, axis) == A

\* lines 100-101: A - np.mean(A, axis=axis)
Centered(A, axis) == BOp(NSub, A, Row(MeanAxis(A, axis)))

\* the shape of a reduction of X along axis, as a row
ReducedShape(X, axis) == <<1, IF axis = 0 THEN Len(X[1]) ELSE Len(X)>>

CenterOk(A, axis) == Broadcastable(Shape(A), ReducedShape(A, axis))

\* lines 102-103: An /= np.linalg.norm(An, axis=axis)
Normalized(An, axis) == BOp(NDiv, An, Row(NormAxis(An, axis)))

NormalizeOk(An, axis) ==
    /\ Broadcastable(Shape(An), ReducedShape(An, axis))
    /\ BShape(Shape(An), ReducedShape(An, axis)) = Shape(An)

\* line 104, An and Bn normalized
Summed(An, Bn, axis) ==
    IF ~Broadcastable(Shape(An), Shape(Bn)) THEN Raises("ValueError")
    ELSE Returns(SumAxis(BOp(NMul, An, Bn), axis))

\* lines 102-104, An and Bn centered
NormalizedAndSummed(An, Bn, axis) ==
    IF ~(NormalizeOk(An, axis) /\ NormalizeOk(Bn, axis)) THEN Raises("ValueError")
    ELSE Summed(Normalized(An, axis), Normalized(Bn, axis), axis)

correlate_vectors(A, B, axis) ==
    IF ~(CenterOk(A, axis) /\ CenterOk(B, axis)) THEN Raises("ValueError")
    ELSE NormalizedAndSummed(Centered(A, axis), Centered(B, axis), axis)

(***************************************************************************)
(* microstates_gev(eeg, microstates, segmentation, gfp), lines 28-35.      *)
(* gfp is [isarray, arr, scalar]: an ndarray (the isinstance branch), as   *)
(* the docstring declares it, or a scalar (the else branch); a Python      *)
(* list, which line 28 admits and line 29 cannot square, is not among the  *)
(* inputs.  segmentation holds 0-based row indices.                        *)
(***************************************************************************)
ArrayGfp(v) == [isarray |-> TRUE, arr |-> v, scalar |-> Zero]

ScalarGfp(x) == [isarray |-> FALSE, arr |-> <<>>, scalar |-> x]

\* a slip: the sum of gfp, not of its squares
gfp_sum(gfp) == IF gfp.isarray THEN SumSeq(gfp.arr) ELSE gfp.scalar

\* lines 28-31
gfp_sum_sq(gfp) == IF gfp.isarray THEN SumSeq(SqSeq(gfp.arr)) ELSE gfp.scalar

\* microstates[segmentation], one row per entry of segmentation
Gather(microstates, segmentation) ==
    Tup([t \in DOMAIN segmentation |-> microstates[segmentation[t] + 1]])

\* line 33
map_corr(eeg, microstates, segmentation) ==
    correlate_vectors(eeg, Transpose(Gather(microstates, segmentation)), 0)

\* a slip: gfp is required to have the length of map_corr
GfpTimesStrict(gfp, corr) == gfp.isarray => Len(gfp.arr) = Len(corr)

\* gfp * map_corr: a scalar times a 1-D array, or two 1-D arrays broadcast
GfpTimesOk(gfp, corr) == gfp.isarray => Compat(Len(gfp.arr), Len(corr))

GfpTimes(gfp, corr) ==
    IF gfp.isarray THEN BOp(NMul, Row(gfp.arr), Row(corr))[1]
    ELSE Tup([t \in DOMAIN corr |-> NMul(gfp.scalar, corr[t])])

\* a slip: the products are not squared
weighted_sum(gfp, corr) == SumSeq(GfpTimes(gfp, corr))

\* the numerator of line 34: np.sum((gfp * map_corr) ** 2)
weighted_sum_sq(gfp, corr) == SumSeq(SqSeq(GfpTimes(gfp, corr)))

\* lines 34-35, mc what line 33 gave
gev(gfp, mc) ==
    IF mc.exc # "none" THEN mc
    ELSE IF ~GfpTimesOk(gfp, mc.val) THEN Raises("ValueError")
    ELSE Returns(NDiv(weighted_sum_sq(gfp, mc.val), gfp_sum_sq(gfp)))

microstates_gev(eeg, microstates, segmentation, gfp) ==
    gev(gfp, map_corr(eeg, microstates, segmentation))

(***************************************************************************)
(* microstates_crossvalidation(eeg, microstates, gfp, n_channels,          *)
(* n_samples), lines 64-71.  gfp is a 1-D array.                           *)
(***************************************************************************)
RECURSIVE DotSeq(_, _)
DotSeq(u, v) ==
    IF u = <<>> THEN Zero
    ELSE NAdd(NMul(u[1], v[1]), DotSeq(Tail(u), Tail(v)))

\* np.dot(X, Y) of 2-D arrays with the inner dimensions equal
Dot(X, Y) ==
    LET Yt == Transpose(Y)
    IN  Tup([i \in DOMAIN X |-> Tup([j \in DOMAIN Yt |-> DotSeq(X[i], Yt[j])])])

MeanSeq(v) == NDiv(SumSeq(v), Num(Len(v)))

\* np.std of a vector: the root of the mean squared deviation from the mean
Std(v) ==
    LET m == MeanSeq(v)
    IN  NSqrt(MeanSeq(SqSeq(Tup([i \in DOMAIN v |-> NSub(v[i], m)]))))

\* np.std(X, axis=1)
StdRows(X) == Tup([k \in DOMAIN X |-> Std(X[k])])

\* np.outer(u, v)
Outer(u, v) == Tup([i \in DOMAIN u |-> Tup([j \in DOMAIN v |-> NMul(u[i], v[j])])])

ScaleBy(c, X) ==
    Tup([i \in DOMAIN X |-> Tup([j \in DOMAIN X[i] |-> NMul(Num(c), X[i][j])])])

\* a slip: the last of the largest entries
ArgMaxLast(v) ==
    (CHOOSE i \in DOMAIN v :
        /\ \A j \in DOMAIN v : ~NLt(v[i], v[j])
        /\ \A j \in (i + 1)..Len(v) : NLt(v[j], v[i])) - 1

\* np.argmax of a vector, 0-based: the first nan if there is one, else the
\* first entry that no entry exceeds
ArgMax(v) ==
    IF \E i \in DOMAIN v : v[i].k = "nan"
    THEN (CHOOSE i \in DOMAIN v :
             v[i].k = "nan" /\ \A j \in 1..(i - 1) : v[j].k # "nan") - 1
    ELSE (CHOOSE i \in DOMAIN v :
             /\ \A j \in DOMAIN v : ~NLt(v[i], v[j])
             /\ \A j \in 1..(i - 1) : NLt(v[j], v[i])) - 1

\* line 64
cluster_dot(eeg, microstates) == Dot(Transpose(eeg), Transpose(microstates))

\* the divisor of line 65
cluster_div(microstates, gfp, n_channels) ==
    ScaleBy(n_channels, Outer(gfp, StdRows(microstates)))

\* line 66, given the normalized cluster of line 65
sum_sq(cluster) == Tup([t \in DOMAIN cluster |-> ArgMax(SqSeq(cluster[t]))])

\* line 67
residual(eeg, microstates, assign) ==
    NSub(SumAll(BOp(NMul, Transpose(eeg), Transpose(eeg))),
         SumSeq(SqSeq(SumAxis(BOp(NMul, Gather(microstates, assign),
                                  Transpose(eeg)), 1))))

\* whether lines 64-65 raise: np.dot needs the channel counts equal, and the
\* in-place division needs the divisor to broadcast to the shape of cluster
cluster_ok(eeg, microstates, gfp) ==
    /\ Len(eeg) = Len(microstates[1])
    /\ Compat(Len(eeg[1]), Len(gfp))
    /\ BDim(Len(eeg[1]), Len(gfp)) = Len(eeg[1])

\* lines 64-65
cluster(eeg, microstates, gfp, n_channels) ==
    BOp(NDiv, cluster_dot(eeg, microstates),
        cluster_div(microstates, gfp, n_channels))

\* lines 64-68: var after the division
residual_variance(eeg, microstates, gfp, n_channels, n_samples) ==
    NDiv(residual(eeg, microstates,
                  sum_sq(cluster(eeg, microstates, gfp, n_channels))),
         Num(n_samples * (n_channels - 1)))

\* a slip: the number of microstates is left out of the penalty
criterion_unpenalized(var, K, n_channels) ==
    NDiv(NMul(var, Num((n_channels - 1) * (n_channels - 1))),
         Num((n_channels - 1) * (n_channels - 1)))

\* line 69
criterion(var, K, n_channels) ==
    NDiv(NMul(var, Num((n_channels - 1) * (n_channels - 1))),
         Num((n_channels - K - 1) * (n_channels - K - 1)))

microstates_crossvalidation(eeg, microstates, gfp, n_channels, n_samples) ==
    IF ~cluster_ok(eeg, microstates, gfp) THEN Raises("ValueError")
    ELSE Returns(criterion(
             residual_variance(eeg, microstates, gfp, n_channels, n_samples),
             Len(microstates), n_channels))

(***************************************************************************)
(* The calls.  A call binds the arguments (pc = "called"); the return      *)
(* gives the result of the body (pc = "returned").  The arguments of the   *)
(* other functions stay empty.                                             *)
(***************************************************************************)
VARIABLES pc, fn, A, B, axis, eeg, microstates, segmentation, gfp,
          n_channels, n_samples, result

vars == <<pc, fn, A, B, axis, eeg, microstates, segmentation, gfp,
          n_channels, n_samples, result>>

\* the largest magnitude of a gfp value
MaxVal == 2

\* the largest entry of the vectors given to _correlate_vectors
MaxEntry == 1

NumVec(v) == Tup([i \in DOMAIN v |-> Num(v[i])])

NumMat(X) == Tup([i \in DOMAIN X |-> NumVec(X[i])])

NegVec(v) == Tup([i \in DOMAIN v |-> NNeg(v[i])])

NegMat(X) == Tup([i \in DOMAIN X |-> NegVec(X[i])])

\* ---- inputs of _correlate_vectors ----
Vectors == {NumVec(v) : v \in [1..3 -> 0..MaxEntry]}

\* a vector as one column (3 x 1) or one row (1 x 3)
AsColumn(v) == Transpose(Row(v))

Layouts(v) == {AsColumn(v), Row(v)}

\* one vector against one vector, or its negative, in either layout
VectorPairs ==
    UNION {{<<a, b>>, <<a, NegMat(b)>>} :
             a \in UNION {Layouts(u) : u \in Vectors},
             b \in UNION {Layouts(v) : v \in Vectors}}

\* arrays of several vectors, square and not
Grids ==
    {NumMat(X) : X \in {<< <<0, 1>>, <<0, 3>> >>,
                        << <<1, 2>>, <<-1, 0>> >>,
                        << <<1, 0>>, <<2, 1>>, <<4, 5>> >>,
                        << <<1, 1>>, <<3, 1>>, <<4, 1>> >>,
                        << <<0, 1, 3>>, <<2, 2, 1>> >>,
                        << <<1, 1, 1>>, <<0, 1, 5>> >>,
                        << <<1>>, <<3>>, <<4>> >>,
                        << <<1, 3>> >>}}

CorrelateInputs == VectorPairs \cup (Grids \X Grids)

Axes == {0, 1}

\* ---- inputs of microstates_gev and microstates_crossvalidation ----
\* samples over 4 channels
Samples == {NumVec(v) : v \in {<<2, 0, 0, 0>>, <<0, -2, 0, 0>>, <<2, 1, 0, 0>>}}

\* eeg (channels x samples) with 2 samples
EegSet == {Transpose(<<c1, c2>>) : c1 \in Samples, c2 \in Samples}

Topographies ==
    <<NumVec(<<1, 0, 0, 0>>), NumVec(<<0, 1, 0, 0>>), NumVec(<<2, 0, 0, 0>>)>>

\* microstates (states x channels) with 1 or 2 states
MicrostatesSet ==
    {<<Topographies[i]>> : i \in 1..3}
      \cup {<<Topographies[ij[1]], Topographies[ij[2]]>> :
               ij \in {<<1, 2>>, <<1, 3>>, <<2, 3>>}}

\* segmentations of T samples into K states
Segmentations(T, K) == {Tup(sg) : sg \in [1..T -> 0..(K - 1)]}

GfpArrays(T) == {NumVec(g) : g \in [1..T -> 0..MaxVal]}

GfpSet(T) ==
    {ArrayGfp(g) : g \in GfpArrays(T)} \cup {ScalarGfp(Num(x)) : x \in 0..MaxVal}

\* arguments whose shapes agree
MatchedGevInputs ==
    UNION {{<<e, m, sg, g>> : e \in EegSet, sg \in Segmentations(2, Len(m)),
                              g \in GfpSet(2)} : m \in MicrostatesSet}

\* arguments of every combination of lengths 1, 2 and 3
MixedEeg ==
    {NumMat(X) : X \in {<< <<2, 2>>, <<0, 1>>, <<0, 0>>, <<0, 0>> >>,
                        << <<2>>, <<1>>, <<0>>, <<0>> >>,
                        << <<2, 1>> >>}}

MixedMicrostates ==
    {NumMat(X) : X \in {<< <<1, 0, 0, 0>>, <<0, 1, 0, 0>> >>,
                        << <<1, 0, 0>>, <<0, 1, 0>> >>,
                        << <<1>>, <<2>> >>}}

MixedSegmentations == {<<0, 1>>, <<1>>, <<0, 1, 0>>}

MixedGfp == {ArrayGfp(NumVec(g)) : g \in {<<1, 2>>, <<2>>, <<1, 2, 1>>}}

MixedGevInputs == MixedEeg \X MixedMicrostates \X MixedSegmentations \X MixedGfp

\* 4 channels, 6 samples alternating between the two topographies scaled by 2
ScenarioGevInput ==
    << Transpose(NumMat(<< <<2, 0, 0, 0>>, <<0, 2, 0, 0>>, <<2, 0, 0, 0>>,
                           <<0, 2, 0, 0>>, <<2, 0, 0, 0>>, <<0, 2, 0, 0>> >>)),
       NumMat(<< <<1, 0, 0, 0>>, <<0, 1, 0, 0>> >>),
       <<0, 1, 0, 1, 0, 1>>,
       ArrayGfp(NumVec(<<2, 2, 2, 2, 2, 2>>)) >>

GevInputs == MatchedGevInputs \cup MixedGevInputs \cup {ScenarioGevInput}

\* microstates of crossvalidation: also 3 states, and a constant topography
CrossvalidationMicrostates ==
    MicrostatesSet
      \cup {<<Topographies[1], Topographies[2], Topographies[3]>>,
            <<NumVec(<<1, 1, 1, 1>>), Topographies[1]>>}

\* n_channels and n_samples as the caller passes them
Counts == {<<4, 2>>, <<5, 2>>, <<4, 3>>}

MatchedCrossvalidationInputs ==
    {<<e, m, g, c[1], c[2]>> : e \in EegSet, m \in CrossvalidationMicrostates,
                               g \in GfpArrays(2), c \in Counts}

MixedCrossvalidationInputs ==
    {<<e, m, g.arr, 4, 2>> : e \in MixedEeg, m \in MixedMicrostates, g \in MixedGfp}

CrossvalidationInputs == MatchedCrossvalidationInputs \cup MixedCrossvalidationInputs

NoResult == [exc |-> "pending", val |-> <<>>]

Init ==
    /\ pc = "idle"
    /\ fn = "none"
    /\ A = <<>> /\ B = <<>> /\ axis = 0
    /\ eeg = <<>> /\ microstates = <<>> /\ segmentation = <<>>
    /\ gfp = ScalarGfp(Zero)
    /\ n_channels = 0 /\ n_samples = 0
    /\ result = NoResult

CallCorrelate ==
    /\ pc = "idle"
    /\ \E ab \in CorrelateInputs, ax \in Axes :
          /\ A' = ab[1]
          /\ B' = ab[2]
          /\ axis' = ax
    /\ fn' = "_correlate_vectors"
    /\ pc' = "called"
    /\ UNCHANGED <<eeg, microstates, segmentation, gfp, n_channels, n_samples, result>>

ReturnCorrelate ==
    /\ pc = "called"
    /\ fn = "_correlate_vectors"
    /\ result' = correlate_vectors(A, B, axis)
    /\ pc' = "returned"
    /\ UNCHANGED <<fn, A, B, axis, eeg, microstates, segmentation, gfp,
                   n_channels, n_samples>>

CallGev ==
    /\ pc = "idle"
    /\ \E in \in GevInputs :
          /\ eeg' = in[1]
          /\ microstates' = in[2]
          /\ segmentation' = in[3]
          /\ gfp' = in[4]
    /\ fn' = "microstates_gev"
    /\ pc' = "called"
    /\ UNCHANGED <<A, B, axis, n_channels, n_samples, result>>

ReturnGev ==
    /\ pc = "called"
    /\ fn = "microstates_gev"
    /\ result' = microstates_gev(eeg, microstates, segmentation, gfp)
    /\ pc' = "returned"
    /\ UNCHANGED <<fn, A, B, axis, eeg, microstates, segmentation, gfp,
                   n_channels, n_samples>>

CallCrossvalidation ==
    /\ pc = "idle"
    /\ \E in \in CrossvalidationInputs :
          /\ eeg' = in[1]
          /\ microstates' = in[2]
          /\ gfp' = ArrayGfp(in[3])
          /\ n_channels' = in[4]
          /\ n_samples' = in[5]
    /\ fn' = "microstates_crossvalidation"
    /\ pc' = "called"
    /\ UNCHANGED <<A, B, axis, segmentation, result>>

ReturnCrossvalidation ==
    /\ pc = "called"
    /\ fn = "microstates_crossvalidation"
    /\ result' = microstates_crossvalidation(eeg, microstates, gfp.arr,
                                             n_channels, n_samples)
    /\ pc' = "returned"
    /\ UNCHANGED <<fn, A, B, axis, eeg, microstates, segmentation, gfp,
                   n_channels, n_samples>>

Next ==
    \/ CallCorrelate \/ ReturnCorrelate
    \/ CallGev \/ ReturnGev
    \/ CallCrossvalidation \/ ReturnCrossvalidation

Spec == Init /\ [][Next]_vars

SpecCorrelate == Init /\ [][CallCorrelate \/ ReturnCorrelate]_vars

SpecGev == Init /\ [][CallGev \/ ReturnGev]_vars

SpecCrossvalidation == Init /\ [][CallCrossvalidation \/ ReturnCrossvalidation]_vars

(***************************************************************************)
(* The properties.                                                         *)
(***************************************************************************)
Returned(f) == pc = "returned" /\ fn = f

NonConstant(v) == \E i, j \in DOMAIN v : v[i] # v[j]

\* the textbook Pearson coefficient of two vectors of equal length n:
\* (n Suv - Su Sv) / sqrt((n Suu - Su^2) (n Svv - Sv^2))
Pearson(u, v) ==
    LET n == Num(Len(u))
        cov == NSub(NMul(n, DotSeq(u, v)), NMul(SumSeq(u), SumSeq(v)))
        vu == NSub(NMul(n, DotSeq(u, u)), NSq(SumSeq(u)))
        vv == NSub(NMul(n, DotSeq(v, v)), NSq(SumSeq(v)))
    IN  NDiv(cov, NSqrt(NMul(vu, vv)))

\* -1 <= c <= 1
InUnitInterval(c) == IsFinite(c) /\ ~NLt(One, c) /\ ~NLt(c, NNeg(One))

\* the shapes of the arguments of microstates_gev agree: eeg is C x T,
\* microstates K x C, segmentation and an array gfp have length T
GevShapesAgree ==
    /\ Len(microstates[1]) = Len(eeg)
    /\ Len(segmentation) = Len(eeg[1])
    /\ gfp.isarray => Len(gfp.arr) = Len(eeg[1])

\* the arguments of _correlate_vectors are equal-shaped arrays of vectors
\* (along axis) none of which is constant
NonConstantPairs ==
    /\ Shape(A) = Shape(B)
    /\ \A i \in DOMAIN Along(A, axis) :
          NonConstant(Along(A, axis)[i]) /\ NonConstant(Along(B, axis)[i])

\* C1: microstates_gev gives the same value for gfp = an array g (of length T,
\* with non-zero sum of squares) and for gfp = the scalar sum of squares of g.
C1_ScalarSequenceEquivalence ==
    (Returned("microstates_gev") /\ GevShapesAgree /\ gfp.isarray
        /\ gfp_sum_sq(gfp) # Zero)
    => result = microstates_gev(eeg, microstates, segmentation,
                                ScalarGfp(gfp_sum_sq(gfp)))

\* C2: for equal-shaped A and B of non-constant vectors and either axis,
\* _correlate_vectors returns one coefficient per index of the other axis, the
\* i-th being the Pearson correlation of the i-th vectors of A and B along axis.
C2_AxisContract ==
    (Returned("_correlate_vectors") /\ NonConstantPairs)
    => /\ result.exc = "none"
       /\ Len(result.val) = Len(Along(A, axis))
       /\ \A i \in DOMAIN Along(A, axis) :
             result.val[i] = Pearson(Along(A, axis)[i], Along(B, axis)[i])

\* the part of C2 that the code keeps: the contract for axis = 0
AxisZeroContract == axis = 0 => C2_AxisContract

\* C3: for non-constant vectors the coefficient lies in [-1, 1]; it is 1 when
\* b = a and -1 when b = -a.
C3_CorrelationBounds ==
    (Returned("_correlate_vectors") /\ NonConstantPairs)
    => /\ result.exc = "none"
       /\ B = A => \A i \in DOMAIN result.val : result.val[i] = One
       /\ B = NegMat(A) => \A i \in DOMAIN result.val : result.val[i] = NNeg(One)
       /\ \A i \in DOMAIN result.val : InUnitInterval(result.val[i])

\* the part of C3 that the code keeps: the bounds for axis = 0
AxisZeroBounds == axis = 0 => C3_CorrelationBounds

\* C4: for equal-shaped A and B of non-constant vectors, adding a constant c to
\* A or to B, or scaling A or B by s > 0, leaves the result of
\* _correlate_vectors unchanged.
Offsets == (-MaxEntry .. MaxEntry + 1) \ {0}

Scales == 2 .. (MaxEntry + 2)

AddConst(X, c) == BOp(NAdd, X, <<<<Num(c)>>>>)

ScaleConst(X, c) == BOp(NMul, X, <<<<Num(c)>>>>)

C4_CorrelationInvariance ==
    (Returned("_correlate_vectors") /\ NonConstantPairs)
    => /\ \A c \in Offsets :
             /\ correlate_vectors(AddConst(A, c), B, axis) = result
             /\ correlate_vectors(A, AddConst(B, c), axis) = result
       /\ \A c \in Scales :
             /\ correlate_vectors(ScaleConst(A, c), B, axis) = result
             /\ correlate_vectors(A, ScaleConst(B, c), axis) = result

\* a call of C4 whose coefficient is none of -1, 0, 1
C4_Witness ==
    /\ Returned("_correlate_vectors") /\ NonConstantPairs
    /\ result.exc = "none"
    /\ \E i \in DOMAIN result.val :
          IsFinite(result.val[i]) /\ result.val[i] \notin {Zero, One, NNeg(One)}

\* u is a scalar multiple of v, or v of u
Collinear(u, v) ==
    \A i, j \in DOMAIN u : NMul(u[i], v[j]) = NMul(u[j], v[i])

\* every sample is assigned a non-constant topography that is a scalar
\* multiple of the sample
PerfectFit ==
    \A t \in DOMAIN segmentation :
        LET m == microstates[segmentation[t] + 1]
            e == Transpose(eeg)[t]
        IN  NonConstant(m) /\ Collinear(m, e) /\ \E i \in DOMAIN e : e[i] # Zero

CrossvalidationShapesAgree ==
    Len(microstates[1]) = Len(eeg) /\ Len(gfp.arr) = Len(eeg[1])

\* the residual variance of the call in the state, and of the same call with
\* microstates m
ResidualVarianceWith(m) ==
    residual_variance(eeg, m, gfp.arr, n_channels, n_samples)

CriterionWith(m) ==
    microstates_crossvalidation(eeg, m, gfp.arr, n_channels, n_samples).val

\* the calls with more microstates K2, K < K2 < n_channels - 1, and the same
\* residual variance as the call in the state
SameResidualMore ==
    {m \in CrossvalidationMicrostates :
        /\ Len(microstates) < Len(m)
        /\ Len(m) < n_channels - 1
        /\ ResidualVarianceWith(m) = ResidualVarianceWith(microstates)}

\* C6: with n_channels, n_samples and the residual variance the same, the
\* criterion for K2 microstates is strictly greater than for K1 < K2 < n_channels - 1.
C6_MonotonicPenalty ==
    (Returned("microstates_crossvalidation") /\ CrossvalidationShapesAgree)
    => \A m \in SameResidualMore : NLt(result.val, CriterionWith(m))

\* C6 as amended: the same, for a residual variance that is positive.
C6_MonotonicPenaltyPositive ==
    (Returned("microstates_crossvalidation") /\ CrossvalidationShapesAgree
        /\ NLt(Zero, ResidualVarianceWith(microstates)))
    => \A m \in SameResidualMore : NLt(result.val, CriterionWith(m))

\* a call with a positive residual variance that a call with more microstates shares
C6_Witness ==
    /\ Returned("microstates_crossvalidation") /\ CrossvalidationShapesAgree
    /\ NLt(Zero, ResidualVarianceWith(microstates))
    /\ SameResidualMore # {}

\* C7: a degenerate normalizer makes the function return a non-finite value
\* and raise nothing: a constant vector in _correlate_vectors (the coefficient
\* of that vector), a zero sum of squares of gfp in microstates_gev,
\* n_channels - len(microstates) - 1 = 0 in microstates_crossvalidation.
ConstantPair(i) ==
    ~NonConstant(Along(A, axis)[i]) \/ ~NonConstant(Along(B, axis)[i])

C7_Correlate ==
    (Returned("_correlate_vectors") /\ Shape(A) = Shape(B)
        /\ \E i \in DOMAIN Along(A, axis) : ConstantPair(i))
    => /\ result.exc = "none"
       /\ Len(result.val) = Len(Along(A, axis))
       /\ \A i \in DOMAIN Along(A, axis) :
             ConstantPair(i) => ~IsFinite(result.val[i])

C7_Gev ==
    (Returned("microstates_gev") /\ GevShapesAgree /\ gfp_sum_sq(gfp) = Zero)
    => result.exc = "none" /\ ~IsFinite(result.val)

C7_Crossvalidation ==
    (Returned("microstates_crossvalidation") /\ CrossvalidationShapesAgree
        /\ n_channels - Len(microstates) - 1 = 0)
    => result.exc = "none" /\ ~IsFinite(result.val)

C7_DegenerateNeverRaises == C7_Correlate /\ C7_Gev /\ C7_Crossvalidation

\* the part of C7 that the code keeps: axis = 0 in _correlate_vectors
AxisZeroDegenerate == (axis = 0 => C7_Correlate) /\ C7_Gev /\ C7_Crossvalidation

\* C8: arguments whose shapes disagree make the call fail with a shape error:
\* A and B of different shapes in _correlate_vectors; in microstates_gev a
\* segmentation or gfp of a length other than T, or microstates with a number
\* of columns other than C.
C8_ShapeMismatchRaises ==
    /\ (Returned("_correlate_vectors") /\ Shape(A) # Shape(B))
          => result.exc = "ValueError"
    /\ (Returned("microstates_gev") /\ ~GevShapesAgree)
          => result.exc = "ValueError"

\* the number of coefficients microstates_gev gets from _correlate_vectors
GevSamples == BDim(Len(eeg[1]), Len(segmentation))

\* some pair of sizes of microstates_gev differs with neither equal to 1
GevIncompatible ==
    \/ ~Compat(Len(microstates[1]), Len(eeg))
    \/ ~Compat(Len(segmentation), Len(eeg[1]))
    \/ gfp.isarray /\ ~Compat(Len(gfp.arr), GevSamples)

\* C8 as amended: the call fails with a shape error when two sizes that should
\* agree differ and neither is 1, and only then for microstates_gev and for
\* _correlate_vectors with axis = 0: a size of 1 is broadcast and a value returned.
C8_IncompatibleShapesRaise ==
    /\ Returned("_correlate_vectors") =>
          /\ ~Broadcastable(Shape(A), Shape(B)) => result.exc = "ValueError"
          /\ (axis = 0 /\ Broadcastable(Shape(A), Shape(B))) => result.exc = "none"
    /\ Returned("microstates_gev") =>
          result.exc = (IF GevIncompatible THEN "ValueError" ELSE "none")

\* both cases of C8 in microstates_gev: a segmentation of 3 entries for 2
\* samples has raised, or one of 1 entry has been broadcast
C8_Witness ==
    /\ Returned("microstates_gev")
    /\ Len(eeg[1]) = 2
    /\ \/ Len(segmentation) = 3 /\ result.exc = "ValueError"
       \/ Len(segmentation) = 1 /\ Len(microstates[1]) = Len(eeg)
            /\ result.exc = "none" /\ IsFinite(result.val)

\* C9: the definition of the criterion, sample by sample.  Score(t, k) is
\* ((eeg[:, t] . microstates[k]) / (n_channels gfp[t] std(microstates[k])))^2
\* with std^2 = mean of squares - square of mean.
RefStd(m) ==
    NSqrt(NSub(NDiv(DotSeq(m, m), Num(Len(m))),
               NSq(NDiv(SumSeq(m), Num(Len(m))))))

SampleOf(t) == [c \in DOMAIN eeg |-> eeg[c][t]]

Score(t, k) ==
    NSq(NDiv(DotSeq(SampleOf(t), microstates[k]),
             NMul(Num(n_channels), NMul(gfp.arr[t], RefStd(microstates[k])))))

\* the lowest k of the highest score
Best(t) ==
    CHOOSE k \in DOMAIN microstates :
        /\ \A j \in DOMAIN microstates : ~NLt(Score(t, k), Score(t, j))
        /\ \A j \in 1..(k - 1) : NLt(Score(t, j), Score(t, k))

RECURSIVE SumOver(_, _)
SumOver(F(_), S) ==
    IF S = {} THEN Zero
    ELSE LET x == CHOOSE x \in S : TRUE IN NAdd(F(x), SumOver(F, S \ {x}))

RefResidualVariance ==
    LET energy(t) == DotSeq(SampleOf(t), SampleOf(t))
        explained(t) == NSq(DotSeq(SampleOf(t), microstates[Best(t)]))
        T == DOMAIN eeg[1]
    IN  NDiv(NSub(SumOver(energy, T), SumOver(explained, T)),
             Num(n_samples * (n_channels - 1)))

RefCriterion ==
    NDiv(NMul(RefResidualVariance, NSq(Num(n_channels - 1))),
         NSq(Num(n_channels - Len(microstates) - 1)))

NonDegenerate ==
    /\ \A t \in DOMAIN gfp.arr : gfp.arr[t] # Zero
    /\ \A k \in DOMAIN microstates : NonConstant(microstates[k])
    /\ Len(microstates) # n_channels - 1

\* C9: for non-degenerate arguments microstates_crossvalidation returns
\* R (n_channels-1)^2 / (n_channels-K-1)^2, R the residual variance under the
\* assignment of each sample to the lowest-indexed microstate of highest score.
C9_CriterionFormula ==
    (Returned("microstates_crossvalidation") /\ CrossvalidationShapesAgree
        /\ NonDegenerate)
    => result = Returns(RefCriterion)

\* a non-degenerate call whose two samples go to different microstates and
\* whose criterion is positive
C9_Witness ==
    /\ Returned("microstates_crossvalidation") /\ CrossvalidationShapesAgree
    /\ NonDegenerate
    /\ \E t, u \in DOMAIN gfp.arr : Best(t) # Best(u)
    /\ result.exc = "none" /\ NLt(Zero, result.val)

\* microstates with the rows in R negated; eeg with the samples in S negated
NegRows(m, R) == Tup([k \in DOMAIN m |-> IF k \in R THEN NegVec(m[k]) ELSE m[k]])

NegSamples(e, S) ==
    Tup([c \in DOMAIN e |->
           Tup([t \in DOMAIN e[c] |-> IF t \in S THEN NNeg(e[c][t]) ELSE e[c][t]])])

\* C10: negating any rows of microstates, or any samples of eeg, leaves the
\* value of microstates_gev unchanged (gfp an array with non-zero sum of
\* squares, the rows of microstates not constant).
C10_PolarityInvariance ==
    (Returned("microstates_gev") /\ GevShapesAgree /\ gfp.isarray
        /\ gfp_sum_sq(gfp) # Zero
        /\ \A k \in DOMAIN microstates : NonConstant(microstates[k]))
    => /\ \A R \in SUBSET (DOMAIN microstates) :
             microstates_gev(eeg, NegRows(microstates, R), segmentation, gfp)
               = result
       /\ \A S \in SUBSET (DOMAIN eeg[1]) :
             microstates_gev(NegSamples(eeg, S), microstates, segmentation, gfp)
               = result

\* a call of C10 whose value is neither 0 nor 1
C10_Witness ==
    /\ Returned("microstates_gev") /\ GevShapesAgree /\ gfp.isarray
    /\ gfp_sum_sq(gfp) # Zero
    /\ \A k \in DOMAIN microstates : NonConstant(microstates[k])
    /\ result.exc = "none" /\ IsFinite(result.val)
    /\ result.val \notin {Zero, One}

====
